---- MODULE Spec2Model ----
(***************************************************************************)
(* Model of setup.py, the seed script of the compliance auditor: it        *)
(* re-creates one ChromaDB collection, splits every *.txt file of the       *)
(* sample directory into line-accumulated chunks and adds the chunks to the *)
(* collection one at a time, skipping a chunk whose add raises.             *)
(*                                                                          *)
(* Strings are sequences of one-character strings, so that split, strip,    *)
(* replace and the f-string of the chunk id are computed as Python computes *)
(* them.  The metadata field document_type (infer_doc_type) is left out:    *)
(* nothing below reads it.                                                  *)
(***************************************************************************)
EXTENDS Integers, Sequences, FiniteSets, TLC

\* ---------------------------------------------------------------- bounds
\* longest text fed to the chunker alone
MaxLen == 6
\* largest target size (CHUNK_SIZE is 150 in the script)
MaxSize == 3
\* most lines in the sample directory, all its files together
MaxDirLines == 3
\* setup runs in a row over the same persistent store
MaxRuns == 2

\* ------------------------------------------------------------ characters
NL == "\n"
WS == {" ", NL}                       \* what str.strip() removes
Chars == {"A", "B", " ", NL}

TextsOfLen(n) == [1..n -> Chars]
Texts == UNION {TextsOfLen(n) : n \in 0..MaxLen}

\* the boundary example of the chunker contract: "A\nB\nC\n"
BoundaryText == <<"A", NL, "B", NL, "C", NL>>

\* --------------------------------------------------------- str functions
Min(S) == CHOOSE x \in S : \A y \in S : x <= y
Max(S) == CHOOSE x \in S : \A y \in S : x >= y

\* text.split("\n"): always at least one (possibly empty) line
RECURSIVE split(_)
split(s) ==
    LET nls == {k \in 1..Len(s) : s[k] = NL}
    IN  IF nls = {} THEN <<s>>
        ELSE LET k == Min(nls)
             IN  <<SubSeq(s, 1, k - 1)>> \o split(SubSeq(s, k + 1, Len(s)))

\* a faulty variant of strip: trims the left end only
lstrip_only(s) ==
    LET keep == {k \in 1..Len(s) : s[k] \notin WS}
    IN  IF keep = {} THEN <<>> ELSE SubSeq(s, Min(keep), Len(s))

\* str.strip(): drops leading and trailing whitespace
strip(s) ==
    LET keep == {k \in 1..Len(s) : s[k] \notin WS}
    IN  IF keep = {} THEN <<>> ELSE SubSeq(s, Min(keep), Max(keep))

\* txt_file.name.replace(".", "_")
replace_dots(name) ==
    [k \in 1..Len(name) |-> IF name[k] = "." THEN "_" ELSE name[k]]

Digit(d) == <<"0", "1", "2", "3", "4", "5", "6", "7", "8", "9">>[d + 1]

\* str(n) of the f-string, n >= 0
RECURSIVE str(_)
str(n) == IF n < 10 THEN <<Digit(n)>> ELSE str(n \div 10) \o <<Digit(n % 10)>>

VARIABLES
    CHUNK_SIZE,    \* the target size; never changes after Init
    dir,           \* sample directory: file name -> text
    db,            \* the persistent store: [exists, docs] of the collection
    pc,            \* position of main()
    todo,          \* files the glob has still to yield
    txt_file,      \* the file being processed
    lines, line_no,
    current, chunk_idx, chunks, ids, metas,
    spans, from_line,  \* history: the lines each chunk was built from
    i, inserted, total_chunks,
    outcome,       \* history: per chunk of this file, "ok" or "fail"
    report,        \* history: per file of this run, its chunks and ids
    warnings,      \* "Warning: skipped chunk" lines printed in this run
    adds,          \* collection.add calls of this run
    ok_recs,       \* history: the records whose add returned in this run
    run, prev,     \* history: run number, the previous run if it completed
    exit_code

vars == <<CHUNK_SIZE, dir, db, pc, todo, txt_file, lines, line_no, current,
          chunk_idx, chunks, ids, metas, spans, from_line, i, inserted,
          total_chunks, outcome, report, warnings, adds, ok_recs, run, prev,
          exit_code>>

\* ---------------------------------------------------------------- chunker
\* a faulty variant of ChunkId: numbers the chunks across the files of the run
ChunkId_running(name, idx) ==
    replace_dots(name) \o <<"_">> \o str(total_chunks + idx)

\* f"{safe_name}_{chunk_idx}"
ChunkId(name, idx) == replace_dots(name) \o <<"_">> \o str(idx)

Meta(name, idx) == [filename |-> name, chunk_index |-> idx]

Locals == [current |-> current, chunk_idx |-> chunk_idx, chunks |-> chunks,
           ids |-> ids, metas |-> metas]

\* appends one chunk with its id and metadata
Emit(st, name, chunk_text) ==
    [st EXCEPT !.chunks = Append(@, chunk_text),
               !.ids    = Append(@, ChunkId(name, st.chunk_idx)),
               !.metas  = Append(@, Meta(name, st.chunk_idx))]

\* a faulty variant of LineStep: counts a dropped blank chunk too
LineStep_countsDropped(st, name, line, size) ==
    LET cur == st.current \o line \o <<NL>>
    IN  IF Len(cur) >= size
        THEN LET chunk_text == strip(cur)
                 st2 == IF chunk_text # <<>> THEN Emit(st, name, chunk_text) ELSE st
             IN  [st2 EXCEPT !.chunk_idx = @ + 1, !.current = <<>>]
        ELSE [st EXCEPT !.current = cur]

\* a faulty variant of LineStep: cuts a closed chunk down to the target size
LineStep_truncates(st, name, line, size) ==
    LET cur == st.current \o line \o <<NL>>
    IN  IF Len(cur) >= size
        THEN LET chunk_text == strip(SubSeq(cur, 1, size))
             IN  IF chunk_text # <<>>
                 THEN [Emit(st, name, chunk_text) EXCEPT !.chunk_idx = @ + 1,
                                                         !.current = <<>>]
                 ELSE [st EXCEPT !.current = <<>>]
        ELSE [st EXCEPT !.current = cur]

\* the body of "for line in lines"
LineStep(st, name, line, size) ==
    LET cur == st.current \o line \o <<NL>>
    IN  IF Len(cur) >= size
        THEN LET chunk_text == strip(cur)
             IN  IF chunk_text # <<>>
                 THEN [Emit(st, name, chunk_text) EXCEPT !.chunk_idx = @ + 1,
                                                         !.current = <<>>]
                 ELSE [st EXCEPT !.current = <<>>]
        ELSE [st EXCEPT !.current = cur]

\* a faulty variant of LeftoverStep: forgets the remainder
LeftoverStep_dropped(st, name) == st

\* "Add leftover text"
LeftoverStep(st, name) ==
    IF strip(st.current) # <<>> THEN Emit(st, name, strip(st.current)) ELSE st


\* ------------------------------------------------------------ the store
NoDocs == {}
NoCollection == [exists |-> FALSE, docs |-> NoDocs]
NewCollection == [exists |-> TRUE, docs |-> NoDocs]

\* a faulty variant of SetupCollection: get_or_create_collection and no delete
SetupCollection_reuse(d, del_raises) ==
    [raised |-> FALSE, db |-> IF d.exists THEN d ELSE NewCollection]

\* try: client.delete_collection(COLLECTION) except: pass; then
\* client.create_collection(...), which raises when the collection exists
SetupCollection(d, del_raises) ==
    LET after == IF d.exists /\ ~del_raises THEN NoCollection ELSE d
    IN  IF after.exists THEN [raised |-> TRUE, db |-> after]
        ELSE [raised |-> FALSE, db |-> NewCollection]

Record(id, document, meta) == [id |-> id, document |-> document, metadata |-> meta]

HasId(docs, id) == \E r \in docs : r.id = id

\* a faulty variant of collection_add: loses the record
collection_add_lost(docs, rec) == docs

\* collection.add that returns normally: an id the collection already holds
\* is left as it is
collection_add(docs, rec) == IF HasId(docs, rec.id) THEN docs ELSE docs \cup {rec}

\* a faulty variant of AfterSkip: the first failing add ends the insert loop
AfterSkip_abort(k, n) == n

\* the loop index after "except Exception: print(Warning)"
AfterSkip(k, n) == k + 1

\* ------------------------------------------------------------- documents
Txt == <<".", "t", "x", "t">>
Stems == {<<"a">>, <<"a", ".", "b">>, <<"a", "_", "b">>}
FileNames == {s \o Txt : s \in Stems}

RECURSIVE Join(_)
Join(ls) == IF Len(ls) = 0 THEN <<>>
            ELSE IF Len(ls) = 1 THEN ls[1]
            ELSE ls[1] \o <<NL>> \o Join(Tail(ls))

\* documents of 0, 1, 2, ... lines "A"
RunText(n) == Join([k \in 1..n |-> <<"A">>])
RunTexts == {RunText(n) : n \in 0..MaxDirLines}

LineCount(t) == IF t = <<>> THEN 0 ELSE Len(split(t))

RECURSIVE DirLines(_, _)
DirLines(d, fs) ==
    IF fs = {} THEN 0
    ELSE LET f == CHOOSE g \in fs : TRUE
         IN  LineCount(d[f]) + DirLines(d, fs \ {f})

DirContents ==
    {d \in UNION {[S -> RunTexts] : S \in SUBSET FileNames} :
        DirLines(d, DOMAIN d) <= MaxDirLines}

EmptyFn == [f \in {} |-> <<>>]
NoPrev == [ok |-> FALSE, clean |-> FALSE, dir |-> EmptyFn, report |-> EmptyFn]

StoredIds == {r.id : r \in db.docs}

\* ------------------------------------------------------------------ Init
FreshLocals ==
    /\ txt_file = <<>>
    /\ lines = <<>>
    /\ line_no = 0
    /\ current = <<>>
    /\ chunk_idx = 0
    /\ chunks = <<>>
    /\ ids = <<>>
    /\ metas = <<>>
    /\ spans = <<>>
    /\ from_line = 0
    /\ i = 0
    /\ inserted = 0
    /\ outcome = <<>>

FreshRun ==
    /\ FreshLocals
    /\ total_chunks = 0
    /\ report = EmptyFn
    /\ warnings = 0
    /\ adds = 0
    /\ ok_recs = {}
    /\ exit_code = -1

Init ==
    /\ CHUNK_SIZE \in 1..MaxSize
    /\ dir \in DirContents
    /\ db = NoCollection
    /\ pc = "start"
    /\ todo = {}
    /\ run = 1
    /\ prev = NoPrev
    /\ FreshRun

\* the chunker alone: one file of any text, the collection just created
ChunkFile == <<"a">> \o Txt

InitChunk ==
    /\ CHUNK_SIZE \in 1..MaxSize
    /\ \E t \in Texts \cup {BoundaryText} : dir = (ChunkFile :> t)
    /\ db = NewCollection
    /\ pc = "files"
    /\ todo = {ChunkFile}
    /\ run = 1
    /\ prev = NoPrev
    /\ FreshRun

\* --------------------------------------------------------------- actions
LocalVars == <<txt_file, lines, line_no, current, chunk_idx, chunks, ids, metas,
               spans, from_line, i, inserted, outcome>>
RunVars == <<total_chunks, report, warnings, adds, ok_recs>>

\* the locals after "del text, lines, chunks, ids, metas"
ResetLocals ==
    /\ txt_file' = <<>>
    /\ lines' = <<>>
    /\ line_no' = 0
    /\ current' = <<>>
    /\ chunk_idx' = 0
    /\ chunks' = <<>>
    /\ ids' = <<>>
    /\ metas' = <<>>
    /\ spans' = <<>>
    /\ from_line' = 0
    /\ i' = 0
    /\ inserted' = 0
    /\ outcome' = <<>>

Exit(code) ==
    /\ pc' = "exited"
    /\ exit_code' = code

\* PersistentClient(...) or mkdir raises: the store is unreachable
ClientFails ==
    /\ pc = "start"
    /\ Exit(1)
    /\ UNCHANGED <<CHUNK_SIZE, dir, db, todo, LocalVars, RunVars, run, prev>>

\* Step 1: delete the collection, swallowing any error, and create it
SetupChromaDB ==
    /\ pc = "start"
    /\ \E del_raises \in BOOLEAN :
         LET r == SetupCollection(db, del_raises)
         IN  IF r.raised
             THEN /\ Exit(1)
                  /\ UNCHANGED <<db, todo>>
             ELSE /\ db' = r.db
                  /\ todo' = DOMAIN dir
                  /\ pc' = "files"
                  /\ UNCHANGED exit_code
    /\ UNCHANGED <<CHUNK_SIZE, dir, LocalVars, RunVars, run, prev>>

\* the glob yields a file and read_text succeeds
LoadFile ==
    /\ pc = "files"
    /\ \E f \in todo :
         /\ todo' = todo \ {f}
         /\ txt_file' = f
         /\ lines' = split(dir[f])
    /\ line_no' = 1
    /\ current' = <<>>
    /\ chunk_idx' = 0
    /\ chunks' = <<>>
    /\ ids' = <<>>
    /\ metas' = <<>>
    /\ spans' = <<>>
    /\ from_line' = 1
    /\ pc' = "lines"
    /\ UNCHANGED <<CHUNK_SIZE, dir, db, i, inserted, outcome, RunVars,
                   run, prev, exit_code>>

\* read_text raises (unreadable or undecodable file): nothing catches it
ReadFails ==
    /\ pc = "files"
    /\ todo # {}
    /\ Exit(1)
    /\ UNCHANGED <<CHUNK_SIZE, dir, db, todo, LocalVars, RunVars, run, prev>>

\* one iteration of "for line in lines"
ProcessLine ==
    /\ pc = "lines"
    /\ line_no <= Len(lines)
    /\ LET st == LineStep(Locals, txt_file, lines[line_no], CHUNK_SIZE)
       IN  /\ current' = st.current
           /\ chunk_idx' = st.chunk_idx
           /\ chunks' = st.chunks
           /\ ids' = st.ids
           /\ metas' = st.metas
           /\ spans' = IF Len(st.chunks) > Len(chunks)
                       THEN Append(spans, <<from_line, line_no>>) ELSE spans
           /\ from_line' = IF st.current = <<>> THEN line_no + 1 ELSE from_line
    /\ line_no' = line_no + 1
    /\ UNCHANGED <<CHUNK_SIZE, dir, db, pc, todo, txt_file, lines, i, inserted,
                   outcome, RunVars, run, prev, exit_code>>

\* after the loop: the leftover text, then the insert loop starts
Leftover ==
    /\ pc = "lines"
    /\ line_no > Len(lines)
    /\ LET st == LeftoverStep(Locals, txt_file)
       IN  /\ chunks' = st.chunks
           /\ ids' = st.ids
           /\ metas' = st.metas
           /\ spans' = IF Len(st.chunks) > Len(chunks)
                       THEN Append(spans, <<from_line, Len(lines)>>) ELSE spans
    /\ i' = 0
    /\ inserted' = 0
    /\ outcome' = <<>>
    /\ pc' = "insert"
    /\ UNCHANGED <<CHUNK_SIZE, dir, db, todo, txt_file, lines, line_no, current,
                   chunk_idx, from_line, RunVars, run, prev, exit_code>>

\* collection.add returns
InsertOk ==
    /\ pc = "insert"
    /\ i < Len(chunks)
    /\ db' = [db EXCEPT !.docs =
                 collection_add(@, Record(ids[i + 1], chunks[i + 1], metas[i + 1]))]
    /\ inserted' = inserted + 1
    /\ i' = i + 1
    /\ outcome' = Append(outcome, "ok")
    /\ adds' = adds + 1
    /\ ok_recs' = ok_recs \cup {Record(ids[i + 1], chunks[i + 1], metas[i + 1])}
    /\ UNCHANGED <<CHUNK_SIZE, dir, pc, todo, txt_file, lines, line_no, current,
                   chunk_idx, chunks, ids, metas, spans, from_line, total_chunks,
                   report, warnings, run, prev, exit_code>>

\* collection.add raises: the chunk is skipped with a warning
InsertFails ==
    /\ pc = "insert"
    /\ i < Len(chunks)
    /\ i' = AfterSkip(i, Len(chunks))
    /\ outcome' = Append(outcome, "fail")
    /\ warnings' = warnings + 1
    /\ adds' = adds + 1
    /\ UNCHANGED <<CHUNK_SIZE, dir, db, pc, todo, txt_file, lines, line_no, current,
                   chunk_idx, chunks, ids, metas, spans, from_line, inserted,
                   total_chunks, report, ok_recs, run, prev, exit_code>>

\* "Stored n chunks", total_chunks += inserted, del text, lines, chunks, ...
FileDone ==
    /\ pc = "insert"
    /\ i >= Len(chunks)
    /\ total_chunks' = total_chunks + inserted
    /\ report' = (txt_file :> [chunks |-> chunks, ids |-> ids]) @@ report
    /\ ResetLocals
    /\ pc' = "files"
    /\ UNCHANGED <<CHUNK_SIZE, dir, db, todo, warnings, adds, ok_recs, run, prev,
                   exit_code>>

\* Steps 3 and 4: count and test query succeed, main returns True, exit(0)
Verify ==
    /\ pc = "files"
    /\ todo = {}
    /\ Exit(0)
    /\ UNCHANGED <<CHUNK_SIZE, dir, db, todo, LocalVars, RunVars, run, prev>>

\* count or query raises: the store went away
VerifyFails ==
    /\ pc = "files"
    /\ todo = {}
    /\ Exit(1)
    /\ UNCHANGED <<CHUNK_SIZE, dir, db, todo, LocalVars, RunVars, run, prev>>

\* the script is run again, after the text of at most one document was edited
Rerun ==
    /\ pc = "exited"
    /\ run < MaxRuns
    /\ \/ dir' = dir
       \/ \E f \in DOMAIN dir, t \in RunTexts :
            /\ DirLines([dir EXCEPT ![f] = t], DOMAIN dir) <= MaxDirLines
            /\ dir' = [dir EXCEPT ![f] = t]
    /\ prev' = IF exit_code = 0
               THEN [ok |-> TRUE, clean |-> warnings = 0, dir |-> dir,
                     report |-> report]
               ELSE NoPrev
    /\ run' = run + 1
    /\ pc' = "start"
    /\ todo' = {}
    /\ ResetLocals
    /\ total_chunks' = 0
    /\ report' = EmptyFn
    /\ warnings' = 0
    /\ adds' = 0
    /\ ok_recs' = {}
    /\ exit_code' = -1
    /\ UNCHANGED <<CHUNK_SIZE, db>>

Next ==
    \/ ClientFails
    \/ SetupChromaDB
    \/ LoadFile
    \/ ReadFails
    \/ ProcessLine
    \/ Leftover
    \/ InsertOk
    \/ InsertFails
    \/ FileDone
    \/ Verify
    \/ VerifyFails
    \/ Rerun

Spec == Init /\ [][Next]_vars

NextChunk ==
    \/ LoadFile
    \/ ProcessLine
    \/ Leftover

SpecChunk == InitChunk /\ [][NextChunk]_vars


\* ============================================================== properties
\* helpers of the properties below
Blank(l) == strip(l) = <<>>
NoWS(s) == SelectSeq(s, LAMBDA c : c \notin WS)

RECURSIVE Flatten(_)
Flatten(ss) == IF Len(ss) = 0 THEN <<>> ELSE ss[1] \o Flatten(Tail(ss))

\* lines a..b of ls, each followed by a newline
RECURSIVE LinesText(_, _, _)
LinesText(ls, a, b) == IF a > b THEN <<>> ELSE ls[a] \o <<NL>> \o LinesText(ls, a + 1, b)

IsSuffix(s, t) == Len(s) <= Len(t) /\ SubSeq(t, Len(t) - Len(s) + 1, Len(t)) = s

\* what follows the last "_" of an id
IdSuffix(id) ==
    LET us == {k \in 1..Len(id) : id[k] = "_"}
    IN  IF us = {} THEN id ELSE SubSeq(id, Max(us) + 1, Len(id))

\* what precedes the last "_" of an id
IdPrefix(id) ==
    LET us == {k \in 1..Len(id) : id[k] = "_"}
    IN  IF us = {} THEN <<>> ELSE SubSeq(id, 1, Max(us) - 1)

Range(q) == {q[k] : k \in 1..Len(q)}
Fails(o) == Cardinality({k \in 1..Len(o) : o[k] = "fail"})
Oks(o) == Cardinality({k \in 1..Len(o) : o[k] = "ok"})

RECURSIVE ChunkCount(_, _)
ChunkCount(rep, fs) ==
    IF fs = {} THEN 0
    ELSE LET f == CHOOSE g \in fs : TRUE
         IN  Len(rep[f].chunks) + ChunkCount(rep, fs \ {f})

ProducedIds(rep) == UNION {Range(rep[f].ids) : f \in DOMAIN rep}

Chunked == pc = "insert"
Completed == pc = "exited" /\ exit_code = 0

\* ---------------------------------------------------------------------- C1
\* C1: chunking "A\nB\nC\n" with target size 3 gives exactly the two chunks
\* "A\nB" and "C".
C1_BoundaryExample ==
    (Chunked /\ CHUNK_SIZE = 3 /\ dir[txt_file] = BoundaryText)
        => chunks = << <<"A", NL, "B">>, <<"C">> >>

C1_Witness ==
    /\ Chunked
    /\ CHUNK_SIZE = 3
    /\ dir[txt_file] = BoundaryText
    /\ Len(chunks) = 2
    /\ line_no = 5

\* ---------------------------------------------------------------------- C5
\* C5: every chunk of a document is non-empty and trimmed, and the chunk
\* indices (chunk_index and the number ending the id) run 0, 1, ..., n-1 in
\* emission order, also when a blank closed chunk was dropped.
C5_NonEmptyNoGaps ==
    /\ Len(ids) = Len(chunks)
    /\ Len(metas) = Len(chunks)
    /\ \A j \in 1..Len(chunks) :
         /\ Len(chunks[j]) >= 1
         /\ strip(chunks[j]) = chunks[j]
         /\ metas[j].chunk_index = j - 1
         /\ IdSuffix(ids[j]) = str(j - 1)

C5_Witness ==
    /\ Chunked
    /\ CHUNK_SIZE = 1
    /\ Len(lines) >= 4
    /\ lines[1] = <<>>
    /\ Blank(lines[3])
    /\ Len(chunks) = 2

\* ---------------------------------------------------------------------- C6
LongLines ==
    {k \in 1..Len(lines) : Len(lines[k]) > CHUNK_SIZE /\ ~Blank(lines[k])}

OthersBlank(a, b, k) == \A m \in a..b : m # k => Blank(lines[m])

\* C6 as stated: a line longer than the target size is a chunk of its own,
\* which holds no other line's text.
C6_OwnChunk ==
    Chunked =>
        \A k \in LongLines :
            \E j \in 1..Len(chunks) :
                /\ spans[j][1] <= k
                /\ k <= spans[j][2]
                /\ OthersBlank(spans[j][1], spans[j][2], k)
                /\ chunks[j] = strip(lines[k])

\* C6 as amended: a line longer than the target size closes the chunk it is
\* accumulated into, so no chunk runs past it; when it is not blank it ends
\* exactly one chunk, whole and untruncated up to the trimming of the chunk's
\* ends, after the shorter lines still pending before it, and is a chunk of
\* its own only when those are all blank.
C6_ClosesChunk ==
    Chunked =>
        /\ \A k \in 1..Len(lines) :
              Len(lines[k]) > CHUNK_SIZE =>
                  \A j \in 1..Len(chunks) : spans[j][1] <= k => spans[j][2] <= k
        /\ \A k \in LongLines :
              /\ Cardinality({j \in 1..Len(chunks) :
                                spans[j][1] <= k /\ k <= spans[j][2]}) = 1
              /\ \E j \in 1..Len(chunks) :
                   /\ spans[j][2] = k
                   /\ chunks[j] = strip(LinesText(lines, spans[j][1], k))
                   /\ IsSuffix(strip(lines[k]), chunks[j])
                   /\ OthersBlank(spans[j][1], k, k) => chunks[j] = strip(lines[k])

C6_Witness ==
    /\ Chunked
    /\ CHUNK_SIZE = 3
    /\ Len(lines) = 2
    /\ lines[1] = <<"A">>
    /\ 2 \in LongLines
    /\ chunks = <<lines[1] \o <<NL>> \o lines[2]>>

\* --------------------------------------------------------------------- C10
\* C10: the chunks in order, with all whitespace deleted, are the text with
\* all whitespace deleted: nothing is lost, repeated or reordered.
C10_NoLossNoDup ==
    Chunked => NoWS(Flatten(chunks)) = NoWS(dir[txt_file])

C10_Witness ==
    /\ Chunked
    /\ Len(chunks) >= 2
    /\ ~Blank(current)
    /\ \E j \in 1..Len(chunks) : \E k \in 1..Len(chunks[j]) : chunks[j][k] \in WS
    /\ Len(NoWS(dir[txt_file])) < Len(dir[txt_file]) - 2


\* ---------------------------------------------------------------------- C2
\* C2: a failing add never ends the insert loop or the run: every chunk of
\* the file is attempted, the chunks whose add returned are counted and in
\* the store, inserted = chunks created - failed adds, one warning is
\* printed per failed add, and a completed run attempted every chunk of
\* every file.
C2_FailureIsolation ==
    /\ pc = "insert" =>
         /\ Len(outcome) = i
         /\ i <= Len(chunks)
         /\ inserted = Oks(outcome)
         /\ \A j \in 1..Len(outcome) : outcome[j] = "ok" => HasId(db.docs, ids[j])
    /\ (pc = "insert" /\ i >= Len(chunks)) =>
         /\ Len(outcome) = Len(chunks)
         /\ inserted = Len(chunks) - Fails(outcome)
    /\ Completed =>
         /\ DOMAIN report = DOMAIN dir
         /\ adds = ChunkCount(report, DOMAIN report)
         /\ total_chunks = adds - warnings

C2_Witness ==
    /\ pc = "insert"
    /\ i = Len(chunks)
    /\ outcome = <<"fail", "ok">>
    /\ inserted = 1
    /\ warnings = 2
    /\ DOMAIN report # {}
    /\ todo # {}

\* ---------------------------------------------------------------------- C3
\* the ids the previous run produced and this run did not
StaleIds == ProducedIds(prev.report) \ ProducedIds(report)

\* C3: after a completed run the store holds exactly the ids whose add
\* returned in that run, each with a record that run added, and no id of
\* the previous run that this run did not produce again.
C3_UpdateReplaces ==
    Completed =>
        /\ db.docs \subseteq ok_recs
        /\ StoredIds = {r.id : r \in ok_recs}
        /\ StoredIds \cap StaleIds = {}

C3_Witness ==
    /\ Completed
    /\ run = 2
    /\ prev.ok
    /\ prev.clean
    /\ StaleIds # {}
    /\ db.docs # {}
    /\ \E f \in DOMAIN report :
         /\ dir[f] # prev.dir[f]
         /\ report[f].ids # <<>>
         /\ Len(report[f].ids) < Len(prev.report[f].ids)

\* ---------------------------------------------------------------------- C4
Unchanged == run >= 2 /\ prev.ok /\ dir = prev.dir

C7_SuccessMeansNoFailure ==
    Completed => warnings = 0

\* ---------------------------------------------------------------------- C8
\* C8: a file whose text is what it was in the previous run is chunked into
\* the same chunks with the same ids, whatever adds failed in either run;
\* an id is the file name with "." replaced, "_" and the chunk's index.
C8_Deterministic ==
    \A f \in DOMAIN report :
        /\ (f \in DOMAIN prev.report /\ prev.dir[f] = dir[f])
               => report[f] = prev.report[f]
        /\ \A j \in 1..Len(report[f].ids) :
               /\ IdPrefix(report[f].ids[j]) = replace_dots(f)
               /\ IdSuffix(report[f].ids[j]) = str(j - 1)

C8_Witness ==
    /\ Completed
    /\ run = 2
    /\ dir = prev.dir
    /\ ~prev.clean
    /\ warnings = 0
    /\ Cardinality(DOMAIN report) = 2
    /\ DOMAIN prev.report = DOMAIN report
    /\ \A f \in DOMAIN report : Len(report[f].chunks) >= 1
    /\ \E f \in DOMAIN report : Len(report[f].chunks) = 2

\* ---------------------------------------------------------------------- C9
\* C9: chunks of different files of one run never have the same id.
C9_DistinctIds ==
    \A f, g \in DOMAIN report :
        f # g => Range(report[f].ids) \cap Range(report[g].ids) = {}

====
